---- MODULE Spec2Model ----
(***************************************************************************)
(* A model of fastapi's jsonable_encoder (src/fastapi/logger.py, lines     *)
(* 415-726): the recursive, type-driven conversion of an in-memory Python  *)
(* value into a JSON-compatible value.                                     *)
(*                                                                         *)
(* Python values are records [k |-> kind, v |-> payload]; the kind decides *)
(* the shape of the payload.  Mappings and iterables carry their entries   *)
(* as sequences in iteration order.  Equality of model values stands for   *)
(* Python's ==; the inputs hold no bool or float mapping keys and no       *)
(* str/int-mixin enum keys, for which == and structure would differ.       *)
(***************************************************************************)
EXTENDS Integers, Sequences, FiniteSets, TLC

\* ------------------------------------------------------------------ bounds
MaxInt == 1
MaxLen == 2
MaxCoeff == 150
MaxExp == 2
MaxCalls == 2
MaxScopes == 2
MaxReads == 2
MaxChanges == 1

\* ------------------------------------------------------------------ values
Val(kind, payload) == [k |-> kind, v |-> payload]

None == Val("none", 0)
PyBool(b) == Val("bool", b)
PyInt(n) == Val("int", n)
PyStr(s) == Val("str", s)
\* A float is cls "fin" with value m * 10^e (m carries no trailing zero),
\* or one of the specials "nan", "inf".
PyFloat(cls, m, e) == Val("float", [cls |-> cls, m |-> m, e |-> e])
Dict(pairs) == Val("dict", pairs)
List(items) == Val("list", items)
Tuple(items) == Val("tuple", items)
Generator(items) == Val("generator", items)
\* enum member: class, member name, underlying value, mixed-in data type
EnumMember(cls, name, value, mix) ==
  Val("enum", [cls |-> cls, mix |-> mix, name |-> name, value |-> value])
PurePath(s) == Val("path", s)
PydanticUndefined == Val("undefined", 0)
\* bytes: the text it decodes to, and whether it is valid UTF-8
Bytes(s, valid) == Val("bytes", [text |-> s, valid |-> valid])
\* Decimal: as_tuple() is (sign, digits, exponent); cls "fin" has an integer
\* exponent, "nan" the exponent 'n', "snan" 'N', "inf" 'F'.
Decimal(cls, sign, coeff, exp) ==
  Val("decimal", [cls |-> cls, coeff |-> coeff, exp |-> exp, sign |-> sign])
Timedelta(secs) == Val("timedelta", secs)
Date(iso) == Val("date", iso)
Datetime(iso) == Val("datetime", iso)
UUID(s) == Val("uuid", s)
\* re.Pattern: .pattern is the str or bytes it was compiled from
Pattern(p) == Val("pattern", p)
SecretStr(s) == Val("secretstr", s)
\* pydantic.v1 model instance
V1Model(n) == Val("v1model", n)
\* any other object: dict(obj) succeeds iff it is iterable as key/value
\* pairs (items), vars(obj) succeeds iff it has a __dict__ (attrs).
Object(cls, iterable, items, hasdict, attrs) ==
  Val("object", [attrs |-> attrs, cls |-> cls, hasdict |-> hasdict,
                 items |-> items, iterable |-> iterable])
\* pydantic BaseModel instance: fields in declaration order
Field(name, alias, value, default, isset) ==
  [alias |-> alias, default |-> default, isset |-> isset,
   name |-> name, value |-> value]
BaseModel(fields) == Val("model", fields)
\* dataclass instance: (field name, value) pairs in declaration order
Dataclass(pairs) == Val("dataclass", pairs)

SeqKinds == {"list", "set", "frozenset", "generator", "tuple", "deque"}

\* ------------------------------------------------------------------ types
\* type(obj).__mro__ as a sequence of class names
Mro(obj) ==
  CASE obj.k = "none" -> <<"NoneType", "object">>
    [] obj.k = "bool" -> <<"bool", "int", "object">>
    [] obj.k = "enum" ->
         IF obj.v.mix = "none" THEN <<obj.v.cls, "Enum", "object">>
         ELSE <<obj.v.cls, obj.v.mix, "Enum", "object">>
    [] obj.k = "path" -> <<"PosixPath", "Path", "PurePath", "object">>
    [] obj.k = "undefined" -> <<"PydanticUndefinedType", "object">>
    [] obj.k = "decimal" -> <<"Decimal", "object">>
    [] obj.k = "datetime" -> <<"datetime", "date", "object">>
    [] obj.k = "uuid" -> <<"UUID", "object">>
    [] obj.k = "pattern" -> <<"Pattern", "object">>
    [] obj.k = "secretstr" -> <<"SecretStr", "object">>
    [] obj.k = "v1model" -> <<"LegacyItem", "v1.BaseModel", "object">>
    [] obj.k = "object" -> <<obj.v.cls, "object">>
    [] obj.k = "model" -> <<"Item", "BaseModel", "object">>
    [] obj.k = "dataclass" -> <<"Point", "object">>
    [] obj.k = "generator" -> <<"GeneratorType", "object">>
    [] OTHER -> <<obj.k, "object">>

TypeOf(obj) == Mro(obj)[1]

IsInstance(obj, cls) == \E i \in 1..Len(Mro(obj)) : Mro(obj)[i] = cls

IsInstanceAny(obj, classes) ==
  \E i \in 1..Len(classes) : IsInstance(obj, classes[i])

\* ---------------------------------------------------------------- outcomes
\* What a call does: return a value, or raise.  An exception is a value of
\* kind "exc": its class, then the exceptions it carries.
Exc(cls, carried) == Val("exc", <<cls>> \o carried)
Ok(val) == [st |-> "ok", val |-> val]
Raise(exc) == [st |-> "raise", val |-> exc]

\* ------------------------------------------------------- leaf conversions
RECURSIVE NormFloat(_, _)
\* the float m * 10^e, with the trailing zeros of m moved to the exponent
NormFloat(m, e) ==
  IF m = 0 THEN PyFloat("fin", 0, 0)
  ELSE IF m % 10 = 0 THEN NormFloat(m \div 10, e + 1)
  ELSE PyFloat("fin", m, e)

RECURSIVE Pow10(_)
Pow10(n) == IF n <= 0 THEN 1 ELSE 10 * Pow10(n - 1)

Signed(dec) == IF dec.sign = 1 THEN 0 - dec.coeff ELSE dec.coeff

\* int(dec_value)
IntOfDecimal(dec) == Ok(PyInt(Signed(dec) * Pow10(dec.exp)))

\* float(dec_value): a signaling NaN cannot be converted
FloatOfDecimal(dec) ==
  CASE dec.cls = "fin" -> Ok(NormFloat(Signed(dec), dec.exp))
    [] dec.cls = "nan" -> Ok(PyFloat("nan", 0, 0))
    [] dec.cls = "inf" -> Ok(PyFloat("inf", IF dec.sign = 1 THEN -1 ELSE 1, 0))
    [] OTHER -> Raise(Exc("ValueError", <<>>))

\* faulty variant: every finite Decimal of integral value becomes an int
decimal_encoder_integral(dec_value) ==
  IF dec_value.v.cls = "fin"
     /\ (dec_value.v.exp >= 0
         \/ dec_value.v.coeff % Pow10(0 - dec_value.v.exp) = 0)
  THEN IF dec_value.v.exp >= 0 THEN IntOfDecimal(dec_value.v)
       ELSE Ok(PyInt(Signed(dec_value.v) \div Pow10(0 - dec_value.v.exp)))
  ELSE FloatOfDecimal(dec_value.v)

decimal_encoder(dec_value) ==
  LET exponent_is_int == dec_value.v.cls = "fin"
      exponent == dec_value.v.exp
  IN IF exponent_is_int /\ exponent >= 0
     THEN IntOfDecimal(dec_value.v)
     ELSE FloatOfDecimal(dec_value.v)

\* faulty variant: the date itself, .isoformat() not called
isoformat_uncalled(o) == Ok(o)

\* lines 416-417
isoformat(o) == Ok(PyStr(o.v))

\* str(o) for the leaf types the table converts with str
StrOf(o) ==
  CASE o.k = "uuid" -> PyStr(o.v)
    [] o.k = "secretstr" -> PyStr("**********")
    [] o.k = "path" -> PyStr(o.v)
    [] OTHER -> PyStr("<" \o TypeOf(o) \o ">")

\* The converters named in ENCODERS_BY_TYPE, applied to o.
ApplyEncoder(encoder, o) ==
  CASE encoder = "bytes.decode" ->
         IF o.v.valid THEN Ok(PyStr(o.v.text))
         ELSE Raise(Exc("UnicodeDecodeError", <<>>))
    [] encoder = "str" -> Ok(StrOf(o))
    [] encoder = "isoformat" -> isoformat(o)
    [] encoder = "total_seconds" -> Ok(NormFloat(o.v, 0))
    [] encoder = "decimal_encoder" -> decimal_encoder(o)
    [] encoder = "enum.value" -> Ok(o.v.value)
    [] encoder = "list" -> Ok(List(o.v))
    [] OTHER -> Ok(o.v)   \* "pattern": o.pattern

\* The conversion table in source order: (type, converter).
EncodersByTypeTable ==
  << <<"bytes", "bytes.decode">>, <<"Color", "str">>,
     <<"date", "isoformat">>, <<"datetime", "isoformat">>,
     <<"time", "isoformat">>, <<"timedelta", "total_seconds">>,
     <<"Decimal", "decimal_encoder">>, <<"Enum", "enum.value">>,
     <<"frozenset", "list">>, <<"deque", "list">>,
     <<"GeneratorType", "list">>, <<"IPv4Address", "str">>,
     <<"IPv4Interface", "str">>, <<"IPv4Network", "str">>,
     <<"IPv6Address", "str">>, <<"IPv6Interface", "str">>,
     <<"IPv6Network", "str">>, <<"NameEmail", "str">>, <<"Path", "str">>,
     <<"Pattern", "pattern">>, <<"SecretBytes", "str">>,
     <<"SecretStr", "str">>, <<"set", "list">>, <<"UUID", "str">>,
     <<"Url", "str">>, <<"AnyUrl", "str">> >>

\* index of the first entry of table whose first component is key, or 0
RECURSIVE IndexOf(_, _, _)
IndexOf(table, key, i) ==
  IF i > Len(table) THEN 0
  ELSE IF table[i][1] = key THEN i
  ELSE IndexOf(table, key, i + 1)

RECURSIVE GroupByEncoder(_, _, _)
GroupByEncoder(type_encoder_map, i, acc) ==
  IF i > Len(type_encoder_map) THEN acc
  ELSE LET type_ == type_encoder_map[i][1]
           encoder == type_encoder_map[i][2]
           at == IndexOf(acc, encoder, 1)
       IN GroupByEncoder(type_encoder_map, i + 1,
            IF at = 0 THEN Append(acc, <<encoder, <<type_>> >>)
            ELSE [acc EXCEPT ![at] = <<encoder, acc[at][2] \o <<type_>> >>])

\* converter -> tuple of the types it serves, in order of first insertion
generate_encoders_by_class_tuples(type_encoder_map) ==
  GroupByEncoder(type_encoder_map, 1, <<>>)

\* ----------------------------------------------------------------- options
\* include / exclude (IncEx | None): how it was given, and its keys
NoIncEx == [form |-> "none", keys |-> {}]
IncEx(form, keys) == [form |-> form, keys |-> keys]

\* line 601-604: anything but a set or a dict is turned into a set
NormalizeIncEx(x) ==
  IF x.form # "none" /\ x.form \notin {"set", "dict"}
  THEN [x EXCEPT !.form = "set"] ELSE x

\* the keyword arguments of jsonable_encoder, with their defaults
DefaultOptions ==
  [include |-> NoIncEx, exclude |-> NoIncEx, by_alias |-> TRUE,
   exclude_unset |-> FALSE, exclude_defaults |-> FALSE,
   exclude_none |-> FALSE, custom_encoder |-> <<>>,
   sqlalchemy_safe |-> TRUE]

\* The caller's converters in custom_encoder: "A" and "B" return a fixed
\* string, "same" returns its argument (lambda o: o).
ApplyCustom(fn, o) ==
  CASE fn = "A" -> Ok(PyStr("A"))
    [] fn = "B" -> Ok(PyStr("B"))
    [] OTHER -> Ok(o)

\* ------------------------------------------------------ Python semantics
IsNumber(x) == x.k \in {"bool", "int"} \/ (x.k = "float" /\ x.v.cls = "fin")

NumberOf(x) ==
  CASE x.k = "bool" -> NormFloat(IF x.v THEN 1 ELSE 0, 0)
    [] x.k = "int" -> NormFloat(x.v, 0)
    [] OTHER -> x

\* a == b for mapping keys: 1 == 1.0 == True
PyEq(a, b) == a = b \/ (IsNumber(a) /\ IsNumber(b) /\ NumberOf(a) = NumberOf(b))

PyIn(x, S) == \E y \in S : PyEq(x, y)

RECURSIVE Hashable(_)
Hashable(x) ==
  CASE x.k \in {"list", "dict", "set", "deque", "dataclass", "model"} -> FALSE
    [] x.k = "tuple" -> \A i \in 1..Len(x.v) : Hashable(x.v[i])
    [] OTHER -> TRUE

RECURSIVE KeyIndex(_, _, _)
KeyIndex(pairs, key, i) ==
  IF i > Len(pairs) THEN 0
  ELSE IF PyEq(pairs[i][1], key) THEN i
  ELSE KeyIndex(pairs, key, i + 1)

\* d[key] = value on a dict held as its pairs in insertion order
DictSet(pairs, key, value) ==
  LET at == KeyIndex(pairs, key, 1)
  IN IF at = 0 THEN Append(pairs, <<key, value>>)
     ELSE [pairs EXCEPT ![at] = <<pairs[at][1], value>>]

StartsWith(s, prefix) ==
  Len(s) >= Len(prefix) /\ SubSeq(s, 1, Len(prefix)) = prefix

\* isinstance(key, str) and key.startswith("_sa")
IsSaKey(key) ==
  /\ IsInstance(key, "str")
  /\ StartsWith(IF key.k = "enum" THEN key.v.value.v ELSE key.v, "_sa")

KeysOf(pairs) == {pairs[i][1] : i \in 1..Len(pairs)}

\* pydantic: BaseModel.model_dump(mode="json", ...) on a model whose field
\* values are JSON primitives
RECURSIVE DumpFields(_, _, _, _)
DumpFields(fields, i, o, acc) ==
  IF i > Len(fields) THEN acc
  ELSE LET f == fields[i]
           keep == /\ (o.include.form = "none" \/ PyStr(f.name) \in o.include.keys)
                   /\ PyStr(f.name) \notin o.exclude.keys
                   /\ (~o.exclude_unset \/ f.isset)
                   /\ (~o.exclude_defaults \/ f.value # f.default)
                   /\ (~o.exclude_none \/ f.value # None)
           key == PyStr(IF o.by_alias THEN f.alias ELSE f.name)
       IN DumpFields(fields, i + 1, o,
                     IF keep THEN Append(acc, <<key, f.value>>) ELSE acc)

model_dump(ob, o) == Dict(DumpFields(ob.v, 1, o, <<>>))

\* dataclasses.asdict on a dataclass whose field values are primitives
asdict(ob) ==
  Dict([i \in 1..Len(ob.v) |-> <<PyStr(ob.v[i][1]), ob.v[i][2]>>])

\* faulty variant: a deque is emptied by the loop as well
AfterIterationPop(kind, items, n) ==
  IF kind \in {"generator", "deque"}
  THEN SubSeq(items, n + 1, Len(items)) ELSE items

\* what is left of an iterable after the for-loop took n items from it:
\* a generator is consumed, every other container keeps its items
AfterIteration(kind, items, n) ==
  IF kind = "generator" THEN SubSeq(items, n + 1, Len(items)) ELSE items

\* ------------------------------------------------------------------- state
VARIABLES
  obj,                      \* the object handed to jsonable_encoder, as it is now
  obj0,                     \* the same object as it was before the first call
  arg,                      \* the same object as it was before the latest call
  include, exclude,         \* the caller's include / exclude arguments
  custom_encoder,           \* the caller's custom_encoder: (type, converter) in insertion order
  flags,                    \* by_alias, exclude_unset, exclude_defaults, exclude_none, sqlalchemy_safe
  ENCODERS_BY_TYPE,         \* module global, line 447
  encoders_by_class_tuples, \* module global, line 488
  result,                   \* outcome of the latest call: [st, val]
  prev,                     \* outcome of the call before it
  calls                     \* number of calls made

\* the Dependants of a dependency tree, their list objects, and the reads made
VARIABLES
  dependants,               \* the Dependant instances, by number: their fields
  lists,                    \* the list objects, by reference: their items
  cached,                   \* the cached_property slots of each Dependant
  ret,                      \* the latest read: the property, the Dependant, what came back
  reads,                    \* number of property reads made
  changes                   \* number of changes made to fields after construction

dependant_vars == <<dependants, lists, cached, ret, reads, changes>>
encoder_vars == <<obj, obj0, arg, include, exclude, custom_encoder, flags,
                  ENCODERS_BY_TYPE, encoders_by_class_tuples, result, prev, calls>>

vars == <<encoder_vars, dependant_vars>>

\* ----------------------------------------------------------- the encoder
Outcome(r, post) == [st |-> r.st, val |-> r.val, post |-> post]

RECURSIVE FirstInstance(_, _, _)
\* index of the first (type, converter) entry obj is an instance of, or 0
FirstInstance(o, table, i) ==
  IF i > Len(table) THEN 0
  ELSE IF IsInstance(o, table[i][1]) THEN i
  ELSE FirstInstance(o, table, i + 1)

\* faulty variant: the isinstance scan alone, the exact type not looked up first
CustomMatchScanOnly(o, custom) == FirstInstance(o, custom, 1)

\* lines 595-600: the entry of custom_encoder that serves o, or 0
CustomMatch(o, custom) ==
  LET exact == IndexOf(custom, TypeOf(o), 1)
  IN IF exact # 0 THEN exact ELSE FirstInstance(o, custom, 1)

RECURSIVE FirstClassTuple(_, _, _)
\* lines 698-700: first converter one of whose classes o is an instance of
FirstClassTuple(o, table, i) ==
  IF i > Len(table) THEN 0
  ELSE IF IsInstanceAny(o, table[i][2]) THEN i
  ELSE FirstClassTuple(o, table, i + 1)

\* faulty variant: exclude looked at only when include is absent
AllowedKeysEither(pairs, o) ==
  LET all == KeysOf(pairs)
  IN IF o.include.form # "none"
     THEN {key \in all : PyIn(key, o.include.keys)}
     ELSE IF o.exclude.form # "none"
     THEN {key \in all : ~PyIn(key, o.exclude.keys)} ELSE all

\* lines 645-649
AllowedKeys(pairs, o) ==
  LET all == KeysOf(pairs)
      inc == IF o.include.form # "none"
             THEN {key \in all : PyIn(key, o.include.keys)} ELSE all
  IN IF o.exclude.form # "none"
     THEN {key \in inc : ~PyIn(key, o.exclude.keys)} ELSE inc

\* lines 651-659: the condition under which a dict entry is encoded
KeepEntry(key, value, allowed_keys, o) ==
  /\ (~o.sqlalchemy_safe \/ ~IsSaKey(key))
  /\ (value # None \/ ~o.exclude_none)
  /\ PyIn(key, allowed_keys)

\* faulty variant: the whole option set is passed down
DictChildOptionsAll(o) == o

\* lines 660-675: the options of the recursive calls on a dict's keys and values
DictChildOptions(o) ==
  [DefaultOptions EXCEPT !.by_alias = o.by_alias,
                         !.exclude_unset = o.exclude_unset,
                         !.exclude_none = o.exclude_none,
                         !.custom_encoder = o.custom_encoder,
                         !.sqlalchemy_safe = o.sqlalchemy_safe]

\* lines 682-692: the options of the recursive calls on an iterable's items
ItemOptions(o) == o

\* lines 615-620: the options of the re-encoding of a dumped BaseModel
ModelChildOptions(o) ==
  [DefaultOptions EXCEPT !.exclude_none = o.exclude_none,
                         !.exclude_defaults = o.exclude_defaults,
                         !.sqlalchemy_safe = o.sqlalchemy_safe]

\* faulty variant: type(obj) in (str, int, float, NoneType), subclasses not matched
IsPrimitiveExactType(o) == TypeOf(o) \in {"str", "int", "float", "NoneType"}

\* line 639
IsPrimitive(o) == IsInstanceAny(o, <<"str", "int", "float", "NoneType">>)

\* fastapi._compat.is_pydantic_v1_model_instance (imported at line 411)
is_pydantic_v1_model_instance(o) == IsInstance(o, "v1.BaseModel")

\* faulty variant: vars(obj) tried before dict(obj)
CoerceVarsFirst(o) ==
  IF o.k = "object" /\ o.v.hasdict
  THEN [st |-> "ok", via |-> "vars", val |-> Dict(o.v.attrs)]
  ELSE IF o.k = "object" /\ o.v.iterable
  THEN [st |-> "ok", via |-> "dict", val |-> Dict(o.v.items)]
  ELSE [st |-> "raise", via |-> "none",
        val |-> Exc("ValueError", <<"TypeError: vars(obj)", "TypeError: dict(obj)">>)]

\* lines 706-715: dict(obj), then vars(obj)
Coerce(o) ==
  IF o.k = "object" /\ o.v.iterable
  THEN [st |-> "ok", via |-> "dict", val |-> Dict(o.v.items)]
  ELSE IF o.k = "object" /\ o.v.hasdict
  THEN [st |-> "ok", via |-> "vars", val |-> Dict(o.v.attrs)]
  ELSE [st |-> "raise", via |-> "none",
        val |-> Exc("ValueError", <<"TypeError: dict(obj)", "TypeError: vars(obj)">>)]

RECURSIVE jsonable_encoder(_, _)
RECURSIVE EncodeDict(_, _, _, _, _)
RECURSIVE EncodeItems(_, _, _, _)

\* faulty variant: the member's value is encoded again
EnumRuleReencoded(ob, o) ==
  LET r == jsonable_encoder(ob.v.value, o) IN [st |-> r.st, val |-> r.val]

\* lines 635-636
EnumRule(ob, o) == Ok(ob.v.value)

\* lines 706-726: coercion to a mapping and its re-encoding
CoerceAndEncode(ob, o) ==
  LET data == Coerce(ob)
      r == jsonable_encoder(data.val, o)
  IN IF data.st = "raise" THEN Outcome(data, ob)
     ELSE Outcome(r, Val("object",
            IF data.via = "dict" THEN [ob.v EXCEPT !.items = r.post.v]
            ELSE [ob.v EXCEPT !.attrs = r.post.v]))

\* faulty variant: no check for pydantic.v1 models
FallbackNoLegacyCheck(ob, o) == CoerceAndEncode(ob, o)

\* lines 701-726: what is done with a value no rule above has taken
Fallback(ob, o) ==
  IF is_pydantic_v1_model_instance(ob)
  THEN Outcome(Raise(Exc("PydanticV1NotSupportedError", <<>>)), ob)
  ELSE CoerceAndEncode(ob, o)

\* lines 650-677: the loop over obj.items(); acc holds the encoded dict so
\* far (enc) and the entries of obj as the calls left them (post)
EncodeDict(pairs, i, allowed_keys, o, acc) ==
  IF i > Len(pairs)
  THEN [st |-> "ok", val |-> Dict(acc.enc), post |-> acc.post]
  ELSE
    LET key == pairs[i][1]
        value == pairs[i][2]
    IN IF ~KeepEntry(key, value, allowed_keys, o)
       THEN EncodeDict(pairs, i + 1, allowed_keys, o, acc)
       ELSE
         LET encoded_key == jsonable_encoder(key, DictChildOptions(o))
             encoded_value == jsonable_encoder(value, DictChildOptions(o))
             post_k == [acc.post EXCEPT ![i] = <<encoded_key.post, value>>]
             post_kv == [acc.post EXCEPT
                           ![i] = <<encoded_key.post, encoded_value.post>>]
         IN IF encoded_key.st = "raise"
            THEN Outcome(encoded_key, post_k)
            ELSE IF encoded_value.st = "raise"
            THEN Outcome(encoded_value, post_kv)
            ELSE IF ~Hashable(encoded_key.val)
            THEN Outcome(Raise(Exc("TypeError", <<>>)), post_kv)
            ELSE EncodeDict(pairs, i + 1, allowed_keys, o,
                   [enc |-> DictSet(acc.enc, encoded_key.val, encoded_value.val),
                    post |-> post_kv])

\* lines 679-694: the loop over the items; n counts the items taken
EncodeItems(items, i, o, acc) ==
  IF i > Len(items)
  THEN [st |-> "ok", val |-> List(acc.enc), post |-> acc.post, n |-> Len(items)]
  ELSE
    LET r == jsonable_encoder(items[i], ItemOptions(o))
        post1 == [acc.post EXCEPT ![i] = r.post]
    IN IF r.st = "raise"
       THEN [st |-> "raise", val |-> r.val, post |-> post1, n |-> i]
       ELSE EncodeItems(items, i + 1, o,
                        [enc |-> Append(acc.enc, r.val), post |-> post1])

\* lines 593-726.  o0 holds the keyword arguments.  The outcome is
\* [st, val, post]: returned or raised, the value or exception, and obj as
\* the call leaves it.
jsonable_encoder(ob, o0) ==
  LET custom == CustomMatch(ob, o0.custom_encoder)
      o == [o0 EXCEPT !.include = NormalizeIncEx(o0.include),
                      !.exclude = NormalizeIncEx(o0.exclude)]
      exact == IndexOf(ENCODERS_BY_TYPE, TypeOf(ob), 1)
      scan == FirstClassTuple(ob, encoders_by_class_tuples, 1)
  IN
  IF Len(o0.custom_encoder) > 0 /\ custom # 0
  THEN Outcome(ApplyCustom(o0.custom_encoder[custom][2], ob), ob)
  ELSE IF IsInstance(ob, "BaseModel")
  THEN Outcome(jsonable_encoder(model_dump(ob, o), ModelChildOptions(o)), ob)
  ELSE IF ob.k = "dataclass"
  THEN Outcome(jsonable_encoder(asdict(ob), o), ob)
  ELSE IF IsInstance(ob, "Enum")
  THEN Outcome(EnumRule(ob, o), ob)
  ELSE IF IsInstance(ob, "PurePath")
  THEN Outcome(Ok(StrOf(ob)), ob)
  ELSE IF IsPrimitive(ob)
  THEN Outcome(Ok(ob), ob)
  ELSE IF IsInstance(ob, "PydanticUndefinedType")
  THEN Outcome(Ok(None), ob)
  ELSE IF IsInstance(ob, "dict")
  THEN LET r == EncodeDict(ob.v, 1, AllowedKeys(ob.v, o), o,
                           [enc |-> <<>>, post |-> ob.v])
       IN Outcome(r, Dict(r.post))
  ELSE IF IsInstanceAny(ob, <<"list", "set", "frozenset", "GeneratorType",
                              "tuple", "deque">>)
  THEN LET r == EncodeItems(ob.v, 1, o, [enc |-> <<>>, post |-> ob.v])
       IN Outcome(r, Val(ob.k, AfterIteration(ob.k, r.post, r.n)))
  ELSE IF exact # 0
  THEN Outcome(ApplyEncoder(ENCODERS_BY_TYPE[exact][2], ob), ob)
  ELSE IF scan # 0
  THEN Outcome(ApplyEncoder(encoders_by_class_tuples[scan][1], ob), ob)
  ELSE Fallback(ob, o)

\* ------------------------------------------------------------------ inputs
SeqsUpTo(S, n) == UNION {[1..m -> S] : m \in 0..n}

\* sequences of (key, value) pairs with pairwise different keys
PairsUpTo(K, V, n) ==
  {p \in SeqsUpTo(K \X V, n) :
     \A i, j \in 1..Len(p) : i # j => p[i][1] # p[j][1]}

Red == EnumMember("Color", "RED", PyStr("a"), "none")
Hidden == EnumMember("Color", "HIDDEN", PyStr("_sa_x"), "none")
Origin == EnumMember("Place", "ORIGIN", Tuple(<<PyInt(0), PyInt(0)>>), "none")
Low == EnumMember("Level", "LOW", PyInt(1), "int")
Tag == EnumMember("Tag", "T", PyStr("t"), "str")

Primitives ==
  {None, PyBool(TRUE), PyBool(FALSE), PyStr("a"), PyStr("_sa_x"),
   PyFloat("fin", 15, -1), PyFloat("nan", 0, 0)}
    \cup {PyInt(n) : n \in 0..MaxInt}

Leaves ==
  {Red, Hidden, Origin, Low, Tag, PurePath("a"), PydanticUndefined,
   Bytes("a", TRUE), Bytes("?", FALSE), Decimal("fin", 0, 10, -1),
   Decimal("fin", 0, 1, 0), Decimal("nan", 0, 0, 0), Timedelta(1),
   Date("2024-01-02"), Datetime("2024-01-02T03:04:05"), UUID("u"),
   Pattern(PyStr("a")), Pattern(Bytes("a", TRUE)), SecretStr("s"),
   V1Model(1)}

Row(attrs) == Object("Row", FALSE, <<>>, TRUE, attrs)
Bag(items) == Object("Bag", TRUE, items, TRUE, <<>>)
Slotted == Object("Slotted", FALSE, <<>>, FALSE, <<>>)

Item(x, desc) ==
  BaseModel(<<Field("x", "X", x, PyInt(0), TRUE),
              Field("desc", "desc", desc, None, FALSE)>>)
Point(x) == Dataclass(<<<<"x", x>>, <<"_sa_y", None>>>>)

Keys == {PyStr("a"), PyStr("b"), PyStr("_sa_x"), PyInt(1), Red}
A == PyStr("a")
B == PyStr("b")
Sa == PyStr("_sa_x")

Atoms ==
  Primitives \cup Leaves
    \cup {Row(<<<<A, PyInt(1)>>, <<PyStr("_sa_instance_state"), Slotted>>>>),
          Bag(<<<<A, None>>, <<B, PyInt(1)>>>>), Slotted,
          Item(PyInt(1), None), Point(PyInt(1))}

CustomTypes == {"int", "date", "datetime", "object", "LegacyItem", "Decimal", "Enum"}

\* custom_encoder dicts: empty, one entry, or two entries with different types
Customs ==
  {<<>>}
    \cup {<<<<t, f>>>> : t \in CustomTypes, f \in {"A", "same"}}
    \cup {<<<<t[1], "A">>, <<t[2], "B">>>> :
            t \in {u \in CustomTypes \X CustomTypes : u[1] # u[2]}}

Flags(by_alias, exclude_unset, exclude_defaults, exclude_none, sqlalchemy_safe) ==
  [by_alias |-> by_alias, exclude_unset |-> exclude_unset,
   exclude_defaults |-> exclude_defaults, exclude_none |-> exclude_none,
   sqlalchemy_safe |-> sqlalchemy_safe]

DefaultFlags == Flags(TRUE, FALSE, FALSE, FALSE, TRUE)

\* flags that matter to mappings and iterables
DictFlags == {Flags(TRUE, FALSE, FALSE, n, sa) : n, sa \in BOOLEAN}

AllFlags == {Flags(a, u, d, n, TRUE) : a, u, d, n \in BOOLEAN}

Mappings ==
  {Dict(p) : p \in PairsUpTo(Keys, {None, PyInt(1)}, MaxLen)}
    \cup {Row(p) : p \in PairsUpTo({A, Sa}, {None, PyInt(1)}, MaxLen)}
    \cup {Bag(p) : p \in PairsUpTo({A, B}, {None, PyInt(1)}, MaxLen)}
    \cup {Slotted, Point(PyInt(1)), Point(None),
          Dict(<<<<Tuple(<<A>>), PyInt(1)>>>>),
          Dict(<<<<Red, PyInt(0)>>, <<A, PyInt(1)>>>>),
          Dict(<<<<A, Dict(<<<<Timedelta(1), A>>, <<PyInt(1), B>>>>)>>>>)}

Includes ==
  {NoIncEx, IncEx("set", {A}), IncEx("list", {A, Sa, PyInt(1), Red}),
   IncEx("dict", {B})}

Excludes == {NoIncEx, IncEx("set", {A}), IncEx("list", {B, Red})}

D1 == Dict(<<<<A, PyInt(1)>>, <<B, None>>>>)
D2 == Dict(<<<<Sa, PyInt(1)>>, <<A, D1>>>>)
G1 == Generator(<<PyInt(1), A>>)
G2 == Generator(<<PyInt(0), V1Model(1), PyInt(1)>>)

Inner == {D1, D2, G1, G2, List(<<D1>>), V1Model(1)}

Nested ==
  {Val(kind, items) : kind \in {"list", "tuple", "generator"},
                      items \in SeqsUpTo(Inner, MaxLen)}
    \cup {Dict(p) : p \in PairsUpTo({A, B}, Inner, MaxLen)}

Models ==
  LET ms == {Item(x, d) : x \in {PyInt(0), PyInt(1)}, d \in {None, A}}
  IN ms \cup {List(<<m>>) : m \in ms} \cup {Dict(<<<<A, m>>>>) : m \in ms}
        \cup {Dict(<<<<A, List(<<m>>)>>>>) : m \in ms}

Items == {None, PyInt(1), A, Red, Decimal("fin", 0, 10, -1), Bytes("?", FALSE)}

Iterables ==
  {Val(kind, items) : kind \in SeqKinds, items \in SeqsUpTo(Items, MaxLen)}

Decimals ==
  {Decimal("fin", s, c, e) :
     s \in 0..1, c \in 0..MaxCoeff, e \in (0 - MaxExp)..MaxExp}
    \cup {Decimal("nan", 0, 0, 0), Decimal("snan", 0, 0, 0),
          Decimal("inf", 0, 0, 0), Decimal("inf", 1, 0, 0)}

\* ================================================================ Dependant
\* The Dependant dataclass (lines 34-196).  A list object lives in the heap
\* `lists` and is named by its index there (0 is None), so that two fields
\* holding the same list object, and a copy of a list, can be told apart.
\* A str | None field is <<>> for None and <<s>> for the string s.  A
\* cached_property's slot in the instance is <<>> until its first read and
\* <<value>> afterwards.
NoneStr == <<>>
Some(s) == <<s>>

\* scope names, in the order Python's string comparison gives them
ScopeNames == <<"a", "b", "c">>
Rank(s) == CHOOSE i \in 1..Len(ScopeNames) : ScopeNames[i] = s

Elems(seq) == {seq[i] : i \in 1..Len(seq)}

\* what a Dependant's call can be
Callable(t, name, kind, security, inner) ==
  [t |-> t, name |-> name, kind |-> kind, security |-> security, inner |-> inner]
NoCall == Callable("None", "", "", FALSE, <<>>)
\* def / async def name(...), with or without yield: kind is one of
\* "def", "async", "gen", "asyncgen"
Func(name, kind) == Callable("function", name, kind, FALSE, <<>>)
\* a function of its own kind whose __wrapped__ is `wrapped` (functools.wraps)
Wrapped(name, kind, wrapped) == Callable("function", name, kind, FALSE, <<wrapped>>)
\* functools.partial(func, ...)
PartialOf(func) == Callable("partial", "", "", FALSE, <<func>>)
ClassCall(name) == Callable("class", name, "", FALSE, <<>>)
\* an instance of a class whose __call__ is of the given kind; security
\* tells whether the class derives from SecurityBase
CallableObject(name, kind, security) == Callable("instance", name, kind, security, <<>>)

RECURSIVE _impartial(_)
_impartial(func) ==
  IF func.t = "partial" THEN _impartial(func.inner[1]) ELSE func

RECURSIVE unwrap(_)
\* inspect.unwrap: follows the __wrapped__ attributes
unwrap(func) ==
  IF func.t = "function" /\ Len(func.inner) > 0 THEN unwrap(func.inner[1]) ELSE func

_unwrapped_call(call) ==
  IF call = NoCall THEN call ELSE unwrap(_impartial(call))

\* inspect: a function or method (partials looked through) whose code has the flag
HasCodeFlag(func, kind) ==
  LET f == _impartial(func) IN f.t \in {"function", "method"} /\ f.kind = kind
isgeneratorfunction(func) == HasCodeFlag(func, "gen")
isasyncgenfunction(func) == HasCodeFlag(func, "asyncgen")
isclass(func) == func.t = "class"

\* getattr(func, "__call__", None): the bound method of an instance, the
\* method-wrapper of anything else; never None for a callable
GetDunderCall(func) ==
  IF func.t = "instance" THEN Callable("method", func.name, func.kind, FALSE, <<>>)
  ELSE Callable("method-wrapper", func.name, "", FALSE, <<>>)

is_gen_callable(call) ==
  IF call = NoCall THEN FALSE
  ELSE IF isgeneratorfunction(_impartial(call))
            \/ isgeneratorfunction(_unwrapped_call(call)) THEN TRUE
  ELSE IF isclass(_unwrapped_call(call)) THEN FALSE
  ELSE LET dunder_call == GetDunderCall(_impartial(call))
           dunder_unwrapped_call == GetDunderCall(_unwrapped_call(call))
       IN IF isgeneratorfunction(_impartial(dunder_call))
               \/ isgeneratorfunction(_unwrapped_call(dunder_call)) THEN TRUE
          ELSE isgeneratorfunction(_impartial(dunder_unwrapped_call))
                 \/ isgeneratorfunction(_unwrapped_call(dunder_unwrapped_call))

is_async_gen_callable(call) ==
  IF call = NoCall THEN FALSE
  ELSE IF isasyncgenfunction(_impartial(call))
            \/ isasyncgenfunction(_unwrapped_call(call)) THEN TRUE
  ELSE IF isclass(_unwrapped_call(call)) THEN FALSE
  ELSE LET dunder_call == GetDunderCall(_impartial(call))
           dunder_unwrapped_call == GetDunderCall(_unwrapped_call(call))
       IN IF isasyncgenfunction(_impartial(dunder_call))
               \/ isasyncgenfunction(_unwrapped_call(dunder_call)) THEN TRUE
          ELSE isasyncgenfunction(_impartial(dunder_unwrapped_call))
                 \/ isasyncgenfunction(_unwrapped_call(dunder_unwrapped_call))

\* The fields of a Dependant the scope properties read.  call and scope are
\* never reassigned here, so the cached computed_scope, is_gen_callable,
\* is_async_gen_callable and _is_security_scheme are the computed ones.
Dependant(call, own_oauth_scopes, parent_oauth_scopes, security_scopes_param_name, scope, dependencies) ==
  [call |-> call, own_oauth_scopes |-> own_oauth_scopes,
   parent_oauth_scopes |-> parent_oauth_scopes,
   security_scopes_param_name |-> security_scopes_param_name,
   scope |-> scope, dependencies |-> dependencies]

\* the cached_property slots of a Dependant before any read
NothingCached == [oauth_scopes |-> <<>>, cache_key |-> <<>>, _uses_scopes |-> <<>>]

computed_scope(dep) ==
  IF dep.scope # NoneStr /\ dep.scope # Some("") THEN dep.scope
  ELSE IF is_gen_callable(dep.call) \/ is_async_gen_callable(dep.call)
  THEN Some("request")
  ELSE NoneStr

_is_security_scheme(dep) ==
  IF dep.call = NoCall THEN FALSE
  ELSE LET unwrapped == _unwrapped_call(dep.call)
       IN unwrapped.t = "instance" /\ unwrapped.security

\* bool(x) of a list | None field
Truthy(h, ref) == ref # 0 /\ Len(h[ref]) > 0

\* faulty variant: no copy, the parent's own list object is used
CopyAliased(h, ref) == [lists |-> h, ref |-> ref]

\* list.copy(): a new list object holding the same items
Copy(h, ref) == [lists |-> Append(h, h[ref]), ref |-> Len(h) + 1]

\* []: a new, empty list object
NewList(h) == [lists |-> Append(h, <<>>), ref |-> Len(h) + 1]

RECURSIVE AppendMissing(_, _, _, _)
\* lines 59-61: for scope in own_oauth_scopes or []: append it if not in scopes
AppendMissing(h, scopes, own, i) ==
  IF ~Truthy(h, own) \/ i > Len(h[own]) THEN h
  ELSE LET scope == h[own][i]
       IN AppendMissing(IF scope \in Elems(h[scopes]) THEN h
                        ELSE [h EXCEPT ![scopes] = Append(@, scope)],
                        scopes, own, i + 1)

\* Dependant.oauth_scopes read on dep, whose cached slots are c: the list
\* object returned, the heap and the slots afterwards
oauth_scopes(h, dep, c) ==
  IF Len(c.oauth_scopes) > 0
  THEN [val |-> c.oauth_scopes[1], lists |-> h, cache |-> c, hit |-> TRUE]
  ELSE LET s == IF Truthy(h, dep.parent_oauth_scopes)
                THEN Copy(h, dep.parent_oauth_scopes) ELSE NewList(h)
       IN [val |-> s.ref,
           lists |-> AppendMissing(s.lists, s.ref, dep.own_oauth_scopes, 1),
           cache |-> [c EXCEPT !.oauth_scopes = <<s.ref>>], hit |-> FALSE]

RECURSIVE _uses_scopes(_, _, _, _)
RECURSIVE AnySubDepUsesScopes(_, _, _, _, _)
\* Dependant._uses_scopes read on Dependant d of ds, c the cached slots of
\* all of them: the value and the slots afterwards
_uses_scopes(h, ds, c, d) ==
  IF Len(c[d]._uses_scopes) > 0
  THEN [val |-> c[d]._uses_scopes[1], cache |-> c]
  ELSE LET r == IF Truthy(h, ds[d].own_oauth_scopes)
                THEN [val |-> TRUE, cache |-> c]
                ELSE IF ds[d].security_scopes_param_name # NoneStr
                THEN [val |-> TRUE, cache |-> c]
                ELSE IF _is_security_scheme(ds[d])
                THEN [val |-> TRUE, cache |-> c]
                ELSE AnySubDepUsesScopes(h, ds, c, ds[d].dependencies, 1)
       IN [val |-> r.val,
           cache |-> [r.cache EXCEPT ![d]._uses_scopes = <<r.val>>]]

\* lines 83-86: the loop over the sub-dependencies, left at the first that uses scopes
AnySubDepUsesScopes(h, ds, c, sub_deps, i) ==
  IF i > Len(sub_deps) THEN [val |-> FALSE, cache |-> c]
  ELSE LET r == _uses_scopes(h, ds, c, sub_deps[i])
       IN IF r.val THEN r ELSE AnySubDepUsesScopes(h, ds, r.cache, sub_deps, i + 1)

RECURSIVE SortedTuple(_)
\* tuple(sorted(S)) of a set of strings
SortedTuple(S) ==
  IF S = {} THEN <<>>
  ELSE LET least == CHOOSE x \in S : \A y \in S : Rank(x) <= Rank(y)
       IN <<least>> \o SortedTuple(S \ {least})

RECURSIVE FirstOccurrences(_, _)
\* the items of a sequence, each kept where it first occurs
FirstOccurrences(seq, i) ==
  IF i > Len(seq) THEN <<>>
  ELSE (IF seq[i] \in Elems(SubSeq(seq, 1, i - 1)) THEN <<>> ELSE <<seq[i]>>)
         \o FirstOccurrences(seq, i + 1)

\* faulty variant: de-duplicated but not sorted
scopes_for_cache_unsorted(scopes, uses) ==
  IF uses THEN FirstOccurrences(scopes, 1) ELSE <<>>

\* lines 66-68: tuple(sorted(set(oauth_scopes or []))) if _uses_scopes else ()
scopes_for_cache(scopes, uses) ==
  IF uses THEN SortedTuple(Elems(scopes)) ELSE <<>>

\* x or "" of a str | None
OrEmpty(x) == IF x = NoneStr THEN "" ELSE x[1]

\* Dependant.cache_key read on Dependant d of ds
cache_key(h, ds, c, d) ==
  IF Len(c[d].cache_key) > 0
  THEN [val |-> c[d].cache_key[1], lists |-> h, cache |-> c, hit |-> TRUE]
  ELSE LET u == _uses_scopes(h, ds, c, d)
           o == IF u.val THEN oauth_scopes(h, ds[d], u.cache[d])
                ELSE [val |-> 0, lists |-> h, cache |-> u.cache[d], hit |-> FALSE]
           key == <<ds[d].call,
                    scopes_for_cache(IF u.val THEN o.lists[o.val] ELSE <<>>, u.val),
                    OrEmpty(computed_scope(ds[d]))>>
       IN [val |-> key, lists |-> o.lists,
           cache |-> [u.cache EXCEPT ![d] = [o.cache EXCEPT !.cache_key = <<key>>]],
           hit |-> FALSE]

\* no read made yet
NoRead == [op |-> "none", dep |-> 0, scopes |-> <<>>, key |-> <<>>, hit |-> FALSE]

\* no Dependant is constructed
NoDependants ==
  /\ dependants = <<>> /\ lists = <<>> /\ cached = <<>>
  /\ ret = NoRead /\ reads = 0 /\ changes = 0

\* ------------------------------------------------------------ specification
InitWith(objs, includes, excludes, customs, flagset) ==
  /\ obj \in objs
  /\ obj0 = obj
  /\ arg = obj
  /\ include \in includes
  /\ exclude \in excludes
  /\ custom_encoder \in customs
  /\ flags \in flagset
  /\ ENCODERS_BY_TYPE = EncodersByTypeTable
  /\ encoders_by_class_tuples = generate_encoders_by_class_tuples(EncodersByTypeTable)
  /\ result = [st |-> "none", val |-> None]
  /\ prev = [st |-> "none", val |-> None]
  /\ calls = 0
  /\ NoDependants

Init ==
  \/ InitWith(Atoms, {NoIncEx}, {NoIncEx}, Customs, {DefaultFlags})
  \/ InitWith(Mappings, Includes, Excludes, {<<>>}, DictFlags)
  \/ InitWith(Nested, {NoIncEx, IncEx("set", {A})}, {NoIncEx, IncEx("set", {B})},
              {<<>>, <<<<"int", "A">>>>}, DictFlags)
  \/ InitWith(Models, {NoIncEx, IncEx("set", {PyStr("x")})},
              {NoIncEx, IncEx("set", {PyStr("x")})},
              {<<>>, <<<<"int", "A">>>>}, AllFlags)
  \/ InitWith(Iterables, {NoIncEx}, {NoIncEx},
              {<<>>, <<<<"Enum", "same">>>>, <<<<"Decimal", "A">>>>},
              {Flags(TRUE, FALSE, FALSE, n, TRUE) : n \in BOOLEAN})
  \/ InitWith(Decimals, {NoIncEx}, {NoIncEx}, {<<>>}, {DefaultFlags})

\* the keyword arguments of the call, from the caller's variables
Options ==
  [include |-> include, exclude |-> exclude, by_alias |-> flags.by_alias,
   exclude_unset |-> flags.exclude_unset,
   exclude_defaults |-> flags.exclude_defaults,
   exclude_none |-> flags.exclude_none, custom_encoder |-> custom_encoder,
   sqlalchemy_safe |-> flags.sqlalchemy_safe]

\* one call jsonable_encoder(obj, include=..., ...) by the caller
Call ==
  /\ calls < MaxCalls
  /\ LET r == jsonable_encoder(obj, Options)
     IN /\ result' = [st |-> r.st, val |-> r.val]
        /\ obj' = r.post
  /\ arg' = obj
  /\ prev' = result
  /\ calls' = calls + 1
  /\ UNCHANGED <<obj0, include, exclude, custom_encoder, flags,
                 ENCODERS_BY_TYPE, encoders_by_class_tuples>>
  /\ UNCHANGED dependant_vars

Next == Call

Spec == Init /\ [][Next]_vars

TypeOK == calls \in 0..MaxCalls /\ result.st \in {"none", "ok", "raise"}
\* ------------------------------------------------- Dependant: operations

\* dep.oauth_scopes, read by a caller
ReadOauthScopes(d) ==
  /\ reads < MaxReads
  /\ LET r == oauth_scopes(lists, dependants[d], cached[d])
     IN /\ lists' = r.lists
        /\ cached' = [cached EXCEPT ![d] = r.cache]
        /\ ret' = [op |-> "oauth_scopes", dep |-> d, scopes |-> r.lists[r.val],
                   key |-> <<>>, hit |-> r.hit]
  /\ reads' = reads + 1
  /\ UNCHANGED <<dependants, changes>>
  /\ UNCHANGED encoder_vars

\* dep.cache_key, read by a caller
ReadCacheKey(d) ==
  /\ reads < MaxReads
  /\ LET r == cache_key(lists, dependants, cached, d)
     IN /\ lists' = r.lists
        /\ cached' = r.cache
        /\ ret' = [op |-> "cache_key", dep |-> d, scopes |-> <<>>,
                   key |-> <<r.val>>, hit |-> r.hit]
  /\ reads' = reads + 1
  /\ UNCHANGED <<dependants, changes>>
  /\ UNCHANGED encoder_vars

\* dep.own_oauth_scopes.append(s) / dep.parent_oauth_scopes.append(s)
AppendScope(d, own, s) ==
  /\ changes < MaxChanges
  /\ LET ref == IF own THEN dependants[d].own_oauth_scopes
                ELSE dependants[d].parent_oauth_scopes
     IN /\ ref # 0
        /\ lists' = [lists EXCEPT ![ref] = Append(@, s)]
  /\ changes' = changes + 1
  /\ UNCHANGED <<dependants, cached, ret, reads>>
  /\ UNCHANGED encoder_vars

\* dep.own_oauth_scopes = v / dep.parent_oauth_scopes = v, v None or a new list
AssignScopes(d, own, v) ==
  /\ changes < MaxChanges
  /\ LET ref == IF v = <<>> THEN 0 ELSE Len(lists) + 1
     IN /\ lists' = IF v = <<>> THEN lists ELSE Append(lists, v[1])
        /\ dependants' = IF own
                         THEN [dependants EXCEPT ![d].own_oauth_scopes = ref]
                         ELSE [dependants EXCEPT ![d].parent_oauth_scopes = ref]
  /\ changes' = changes + 1
  /\ UNCHANGED <<cached, ret, reads>>
  /\ UNCHANGED encoder_vars

\* dep.dependencies.append(sub_dep), as the tree is built
AppendDependency(d, e) ==
  /\ changes < MaxChanges
  /\ d < e
  /\ e \notin Elems(dependants[d].dependencies)
  /\ dependants' = [dependants EXCEPT ![d].dependencies = Append(@, e)]
  /\ changes' = changes + 1
  /\ UNCHANGED <<lists, cached, ret, reads>>
  /\ UNCHANGED encoder_vars

\* ----------------------------------------------------- Dependant: inputs
\* scope lists of the inputs; <<>> is None, <<l>> the list l
ScopeLists == {<<>>} \cup {<<l>> : l \in SeqsUpTo({"a", "b"}, MaxScopes)}

endpoint == Func("endpoint", "def")
get_db == Func("get_db", "gen")
oauth2_scheme == CallableObject("oauth2_scheme", "def", TRUE)

\* the calls told apart by computed_scope and _is_security_scheme
Callables ==
  {NoCall, endpoint, get_db, Func("h", "async"), Func("ag", "asyncgen"), oauth2_scheme,
   PartialOf(get_db), PartialOf(PartialOf(endpoint)), Wrapped("w", "def", get_db),
   Wrapped("w", "def", PartialOf(get_db)), Wrapped("wg", "gen", endpoint),
   ClassCall("C"), CallableObject("o", "gen", FALSE),
   CallableObject("o", "asyncgen", FALSE), PartialOf(oauth2_scheme),
   Wrapped("ws", "def", oauth2_scheme)}

\* a Dependant as its constructor is given it: the lists by their items
Described(call, own, parent, security_scopes_param_name, scope, dependencies) ==
  [call |-> call, own |-> own, parent |-> parent,
   security_scopes_param_name |-> security_scopes_param_name,
   scope |-> scope, dependencies |-> dependencies]

Plain == Described(endpoint, <<>>, <<>>, NoneStr, NoneStr, <<>>)
OwnBA == Described(endpoint, <<<<"b", "a">>>>, <<>>, NoneStr, NoneStr, <<>>)
ParentAB == Described(endpoint, <<>>, <<<<"a", "b">>>>, NoneStr, NoneStr, <<>>)
ParentB_OwnA == Described(endpoint, <<<<"a">>>>, <<<<"b">>>>, NoneStr, NoneStr, <<>>)
WithParam == Described(endpoint, <<>>, <<<<"a", "b">>>>, Some("scopes"), NoneStr, <<>>)
Scheme == Described(oauth2_scheme, <<>>, <<<<"a", "b">>>>, NoneStr, NoneStr, <<>>)

Profiles == {Plain, OwnBA, ParentAB, ParentB_OwnA, WithParam, Scheme}

\* a tree whose Dependant i has the Dependants edges[i] as its dependencies
Linked(nodes, edges) ==
  [i \in 1..Len(nodes) |-> [nodes[i] EXCEPT !.dependencies = edges[i]]]

Trees ==
  \* one Dependant, its own scopes against some parent scopes
  {<<Described(endpoint, own, parent, NoneStr, NoneStr, <<>>)>> :
     own \in ScopeLists,
     parent \in {<<>>, <<<<>>>>, <<<<"a">>>>, <<<<"b", "a">>>>, <<<<"a", "a">>>>}}
  \* one Dependant, every call and scope
    \cup {<<Described(call, <<>>, <<>>, NoneStr, scope, <<>>)>> :
            call \in Callables,
            scope \in {NoneStr, Some(""), Some("function"), Some("request")}}
  \* two Dependants, not yet linked
    \cup {<<p, q>> : p \in Profiles, q \in {Plain, OwnBA, WithParam}}
  \* three Dependants in a chain
    \cup {Linked(<<p, Plain, r>>, <<<<2>>, <<3>>, <<>>>>) :
            p \in {Plain, ParentAB}, r \in {Plain, OwnBA, Scheme}}

\* the Dependants of a tree, list object 2i-1 the own and 2i the parent
\* scopes of Dependant i
Constructed(tree) ==
  [i \in 1..Len(tree) |->
     Dependant(tree[i].call,
               IF tree[i].own = <<>> THEN 0 ELSE 2 * i - 1,
               IF tree[i].parent = <<>> THEN 0 ELSE 2 * i,
               tree[i].security_scopes_param_name, tree[i].scope,
               tree[i].dependencies)]

ListObjects(tree) ==
  [r \in 1..(2 * Len(tree)) |->
     LET x == IF r % 2 = 1 THEN tree[(r + 1) \div 2].own
              ELSE tree[r \div 2].parent
     IN IF x = <<>> THEN <<>> ELSE x[1]]

\* the scopes a change can bring in
NewScopes == {"c"}
NewScopeLists == {<<>>, <<<<"c">>>>}

\* -------------------------------------------- Dependant: specification
NoEncoderCall ==
  /\ obj = None /\ obj0 = None /\ arg = None
  /\ include = NoIncEx /\ exclude = NoIncEx
  /\ custom_encoder = <<>> /\ flags = DefaultFlags
  /\ ENCODERS_BY_TYPE = EncodersByTypeTable
  /\ encoders_by_class_tuples = generate_encoders_by_class_tuples(EncodersByTypeTable)
  /\ result = [st |-> "none", val |-> None]
  /\ prev = [st |-> "none", val |-> None]
  /\ calls = 0

DependantInit ==
  /\ NoEncoderCall
  /\ \E tree \in Trees :
       /\ dependants = Constructed(tree)
       /\ lists = ListObjects(tree)
       /\ cached = [i \in 1..Len(tree) |-> NothingCached]
  /\ ret = NoRead
  /\ reads = 0
  /\ changes = 0

Deps == 1..Len(dependants)

DependantNext ==
  \/ \E d \in Deps : ReadOauthScopes(d)
  \/ \E d \in Deps : ReadCacheKey(d)
  \/ \E d \in Deps, own \in BOOLEAN, s \in NewScopes : AppendScope(d, own, s)
  \/ \E d \in Deps, own \in BOOLEAN, v \in NewScopeLists : AssignScopes(d, own, v)
  \/ \E d \in Deps, e \in Deps : AppendDependency(d, e)

DependantSpec == DependantInit /\ [][DependantNext]_vars

\* ================================================================== claims
Called == calls >= 1
Returned == Called /\ result.st = "ok"
PrimitiveKinds == {"none", "bool", "int", "float", "str"}

\* every value held inside x, x included
RECURSIVE Parts(_)
Parts(x) ==
  {x} \cup
    CASE x.k = "dict" ->
           UNION {Parts(x.v[i][1]) \cup Parts(x.v[i][2]) : i \in 1..Len(x.v)}
      [] x.k \in SeqKinds -> UNION {Parts(x.v[i]) : i \in 1..Len(x.v)}
      [] x.k = "object" ->
           UNION ({Parts(x.v.items[i][1]) \cup Parts(x.v.items[i][2]) :
                     i \in 1..Len(x.v.items)}
                  \cup {Parts(x.v.attrs[i][1]) \cup Parts(x.v.attrs[i][2]) :
                     i \in 1..Len(x.v.attrs)})
      [] x.k = "dataclass" -> UNION {Parts(x.v[i][2]) : i \in 1..Len(x.v)}
      [] x.k = "model" -> {x.v[i].value : i \in 1..Len(x.v)}
      [] OTHER -> {}

\* built from primitives, lists and string-keyed dicts only
RECURSIVE IsJson(_)
IsJson(x) ==
  CASE x.k \in PrimitiveKinds -> TRUE
    [] x.k = "list" -> \A i \in 1..Len(x.v) : IsJson(x.v[i])
    [] x.k = "dict" ->
         \A i \in 1..Len(x.v) : x.v[i][1].k = "str" /\ IsJson(x.v[i][2])
    [] OTHER -> FALSE

\* built from primitives, lists and dicts whose keys are primitives
RECURSIVE IsJsonPrimitiveKeyed(_)
IsJsonPrimitiveKeyed(x) ==
  CASE x.k \in PrimitiveKinds -> TRUE
    [] x.k = "list" -> \A i \in 1..Len(x.v) : IsJsonPrimitiveKeyed(x.v[i])
    [] x.k = "dict" ->
         \A i \in 1..Len(x.v) :
           x.v[i][1].k \in PrimitiveKinds /\ IsJsonPrimitiveKeyed(x.v[i][2])
    [] OTHER -> FALSE

\* C1 as claimed: whatever jsonable_encoder returns, under any options,
\* is built from primitives, lists and string-keyed dicts only.
C1_AsClaimed == Returned => IsJson(result.val)

C1_Covered ==
  /\ custom_encoder = <<>>
  /\ \A p \in Parts(arg) :
       /\ p.k = "enum" => p.v.value.k \in PrimitiveKinds
       /\ ~(p.k = "pattern" /\ p.v.k = "bytes")

\* C1 amended: with an empty custom_encoder and an input holding no enum
\* member of non-primitive value and no bytes pattern, whatever
\* jsonable_encoder returns is built from primitives, lists, and dicts whose
\* keys are primitives (not necessarily strings) and whose values are such.
C1_JsonOutput == (Returned /\ C1_Covered) => IsJsonPrimitiveKeyed(result.val)

C1_Witness ==
  /\ Returned /\ C1_Covered /\ IsJsonPrimitiveKeyed(result.val)
  /\ arg.k = "tuple" /\ Len(arg.v) = 2
  /\ arg.v[1].k = "decimal" /\ arg.v[2].k = "enum"
\* ---- C2
KeySeq(d) == [i \in 1..Len(d.v) |-> d.v[i][1]]

\* the claimed filter, entry by entry
Survives(key, value) ==
  /\ include.form # "none" => key \in include.keys
  /\ exclude.form # "none" => key \notin exclude.keys
  /\ ~(flags.sqlalchemy_safe /\ key.k = "str" /\ StartsWith(key.v, "_sa"))
  /\ ~(flags.exclude_none /\ value = None)

RECURSIVE SurvivingKeys(_, _)
SurvivingKeys(pairs, i) ==
  IF i > Len(pairs) THEN <<>>
  ELSE IF Survives(pairs[i][1], pairs[i][2])
       THEN <<pairs[i][1]>> \o SurvivingKeys(pairs, i + 1)
       ELSE SurvivingKeys(pairs, i + 1)

\* the key as it appears in the output
KeyForm(key) == IF key.k = "enum" THEN key.v.value ELSE key

RECURSIVE MergedForms(_, _, _)
\* the forms of the keys in order, a form met before not repeated
MergedForms(keys, i, acc) ==
  IF i > Len(keys) THEN acc
  ELSE MergedForms(keys, i + 1,
         IF \E j \in 1..Len(acc) : acc[j] = KeyForm(keys[i]) THEN acc
         ELSE Append(acc, KeyForm(keys[i])))

C2_Covered ==
  /\ Returned /\ arg.k = "dict"
  /\ \A i \in 1..Len(arg.v) : arg.v[i][1].k \in {"str", "int", "enum"}

\* C2 as claimed: the keys of the output of a mapping are the input's keys
\* that pass include, exclude, the "_sa" filter and the None filter, in the
\* input's order.
C2_AsClaimed ==
  (Returned /\ arg.k = "dict") => KeySeq(result.val) = SurvivingKeys(arg.v, 1)

\* C2 amended: the keys of the output of a mapping are the encoded forms of
\* the input's keys that pass include, exclude, the "_sa" filter and the
\* None filter (a str or int key is its own form, an enum member's form is
\* its value), in the input's order, equal forms merged into the first.
C2_OutputKeys ==
  C2_Covered => KeySeq(result.val) = MergedForms(SurvivingKeys(arg.v, 1), 1, <<>>)

C2_Witness ==
  /\ C2_Covered /\ Len(arg.v) = 2
  /\ include.form = "list" /\ exclude.form = "set" /\ flags.exclude_none
  /\ arg.v[1][1] = Red /\ arg.v[2][1] = A /\ arg.v[2][2] # None
  /\ KeySeq(result.val) = <<A>>
\* ---- C3
ExactEntries == {i \in 1..Len(custom_encoder) : custom_encoder[i][1] = TypeOf(arg)}

InstanceEntries ==
  {i \in 1..Len(custom_encoder) : IsInstance(arg, custom_encoder[i][1])}

Least(S) == CHOOSE i \in S : \A j \in S : i <= j

\* C3: with a non-empty custom_encoder, an entry keyed by type(obj) decides
\* the result, whatever stands before it; failing that, the first entry in
\* insertion order whose type obj is an instance of; the converter's result
\* is returned as it is, before any built-in rule is looked at.
C3_CustomFirst ==
  (Called /\ custom_encoder # <<>>) =>
    /\ \A i \in ExactEntries : result = ApplyCustom(custom_encoder[i][2], arg)
    /\ (ExactEntries = {} /\ InstanceEntries # {}) =>
         result = ApplyCustom(custom_encoder[Least(InstanceEntries)][2], arg)

C3_Witness ==
  /\ Called /\ arg.k = "datetime"
  /\ custom_encoder = <<<<"date", "A">>, <<"datetime", "B">>>>
  /\ result = Ok(PyStr("B"))

\* ---- C4
IsIntegral(d) == d.exp >= 0 \/ d.coeff % Pow10(0 - d.exp) = 0

IntegerOf(d) ==
  IF d.exp >= 0 THEN Signed(d) * Pow10(d.exp)
  ELSE (IF d.sign = 1 THEN -1 ELSE 1) * (d.coeff \div Pow10(0 - d.exp))

\* the float f is c * 10^e
FloatIs(f, c, e) ==
  /\ f.k = "float" /\ f.v.cls = "fin" /\ f.v.e >= e
  /\ f.v.m * Pow10(f.v.e - e) = c
  /\ (f.v.m = 0 \/ f.v.m % 10 # 0)

C4_Covered == Called /\ arg.k = "decimal" /\ custom_encoder = <<>>

\* C4 as claimed: a Decimal of integral value encodes as that integer, any
\* other as a float; Decimal("1.0") gives the int 1, Decimal("1.50") 1.5,
\* Decimal("NaN") the float NaN.
C4_AsClaimed ==
  C4_Covered =>
    /\ (arg.v.cls = "fin" /\ IsIntegral(arg.v)) => result = Ok(PyInt(IntegerOf(arg.v)))
    /\ (arg.v.cls = "fin" /\ ~IsIntegral(arg.v)) =>
         result.st = "ok" /\ FloatIs(result.val, Signed(arg.v), arg.v.exp)
    /\ arg.v.cls = "nan" => result = Ok(PyFloat("nan", 0, 0))

\* C4 amended: a Decimal whose exponent is an integer >= 0 encodes as that
\* integer; a finite one with a negative exponent as the float of its value,
\* also when the value is integral; NaN and the infinities as the float NaN
\* and infinities; a signaling NaN raises ValueError.  Decimal("1") gives
\* the int 1, Decimal("1.0") the float 1.0, Decimal("1.50") the float 1.5.
C4_Decimal ==
  C4_Covered =>
    /\ (arg.v.cls = "fin" /\ arg.v.exp >= 0) =>
         result = Ok(PyInt(Signed(arg.v) * Pow10(arg.v.exp)))
    /\ (arg.v.cls = "fin" /\ arg.v.exp < 0) =>
         result.st = "ok" /\ FloatIs(result.val, Signed(arg.v), arg.v.exp)
    /\ arg.v.cls = "nan" => result = Ok(PyFloat("nan", 0, 0))
    /\ arg.v.cls = "inf" =>
         result = Ok(PyFloat("inf", IF arg.v.sign = 1 THEN -1 ELSE 1, 0))
    /\ arg.v.cls = "snan" => result = Raise(Exc("ValueError", <<>>))
    /\ arg = Decimal("fin", 0, 1, 0) => result = Ok(PyInt(1))
    /\ arg = Decimal("fin", 0, 10, -1) => result = Ok(PyFloat("fin", 1, 0))
    /\ arg = Decimal("fin", 0, 150, -2) => result = Ok(PyFloat("fin", 15, -1))

C4_Witness ==
  /\ C4_Covered /\ arg = Decimal("fin", 0, 10, -1)
  /\ result = Ok(PyFloat("fin", 1, 0))
\* ---- C5
DefaultCall ==
  /\ include = NoIncEx /\ exclude = NoIncEx
  /\ custom_encoder = <<>> /\ flags = DefaultFlags

\* jsonable_encoder(x) with default options: returned or raised, and what
Encoded(x) ==
  LET r == jsonable_encoder(x, DefaultOptions) IN [st |-> r.st, val |-> r.val]

\* built from primitives, lists, and dicts whose keys are primitives other
\* than strings starting with "_sa"
RECURSIVE IsPlain(_)
IsPlain(x) ==
  CASE x.k \in PrimitiveKinds -> TRUE
    [] x.k = "list" -> \A i \in 1..Len(x.v) : IsPlain(x.v[i])
    [] x.k = "dict" ->
         \A i \in 1..Len(x.v) :
           /\ x.v[i][1].k \in PrimitiveKinds
           /\ ~(x.v[i][1].k = "str" /\ StartsWith(x.v[i][1].v, "_sa"))
           /\ IsPlain(x.v[i][2])
    [] OTHER -> FALSE

\* C5 as claimed: with default options a value built from primitives, lists
\* and string-keyed dicts is returned equal to itself, and encoding the
\* result of any successful call again gives that result.
C5_AsClaimed ==
  /\ (Called /\ DefaultCall /\ IsJson(arg)) => result = Ok(arg)
  /\ (Returned /\ DefaultCall) => Encoded(result.val) = result

\* C5 amended: with default options a value built from primitives, lists,
\* and dicts whose keys are primitives other than strings starting with
\* "_sa" is returned equal to itself, so encoding the result of a call
\* again gives that result whenever the result is such a value.
C5_Idempotent ==
  /\ (Called /\ DefaultCall /\ IsPlain(arg)) => result = Ok(arg)
  /\ (Returned /\ DefaultCall /\ IsPlain(result.val)) =>
       Encoded(result.val) = result

C5_Witness ==
  /\ Called /\ DefaultCall /\ IsPlain(arg)
  /\ arg.k = "list" /\ Len(arg.v) = 2 /\ arg.v[1].k = "dict" /\ arg.v[2].k = "list"
  /\ result = Ok(arg)
\* ---- C6
NoCustomMatch ==
  \A i \in 1..Len(custom_encoder) : ~IsInstance(arg, custom_encoder[i][1])

\* jsonable_encoder(x, ...) with the options of the call: returned or raised, and what
EncodedWithOptions(x) ==
  LET r == jsonable_encoder(x, Options) IN [st |-> r.st, val |-> r.val]

\* C6: an object that no custom encoder, structural rule or table entry
\* takes is viewed as a mapping with dict(obj), and only if that fails with
\* vars(obj); the mapping is encoded with the options of the call; if both
\* views fail, one ValueError carrying the two failures in the order of the
\* attempts is raised and nothing is returned.
C6_Fallback ==
  (Called /\ arg.k = "object" /\ NoCustomMatch) =>
    /\ arg.v.iterable => result = EncodedWithOptions(Dict(arg.v.items))
    /\ (~arg.v.iterable /\ arg.v.hasdict) =>
         result = EncodedWithOptions(Dict(arg.v.attrs))
    /\ (~arg.v.iterable /\ ~arg.v.hasdict) =>
         result = Raise(Exc("ValueError",
                            <<"TypeError: dict(obj)", "TypeError: vars(obj)">>))

C6_Witness ==
  /\ Called /\ arg.k = "object" /\ NoCustomMatch
  /\ ~arg.v.iterable /\ ~arg.v.hasdict
  /\ result.st = "raise" /\ result.val.v[1] = "ValueError" /\ Len(result.val.v) = 3
\* ---- C7
IsLegacy(x) == x.k = "v1model"

LegacyError == Raise(Exc("PydanticV1NotSupportedError", <<>>))

\* a pydantic.v1 model that the recursion gets to unless it fails before:
\* x itself, an item of an iterable, or a key or value of a dict entry that
\* passes the filters (include and exclude taken to be absent)
RECURSIVE ReachesLegacy(_)
ReachesLegacy(x) ==
  \/ IsLegacy(x)
  \/ /\ x.k \in SeqKinds
     /\ \E i \in 1..Len(x.v) : ReachesLegacy(x.v[i])
  \/ /\ x.k = "dict"
     /\ \E i \in 1..Len(x.v) :
          /\ ~(flags.sqlalchemy_safe /\ IsSaKey(x.v[i][1]))
          /\ ~(flags.exclude_none /\ x.v[i][2] = None)
          /\ (ReachesLegacy(x.v[i][1]) \/ ReachesLegacy(x.v[i][2]))

\* the first thing encoded is a pydantic.v1 model
RECURSIVE LegacyFirst(_)
LegacyFirst(x) ==
  \/ IsLegacy(x)
  \/ x.k \in SeqKinds /\ Len(x.v) > 0 /\ LegacyFirst(x.v[1])

NoFilter == include.form = "none" /\ exclude.form = "none"

NoCustomForLegacy ==
  \A i \in 1..Len(custom_encoder) :
    custom_encoder[i][1] \notin {"LegacyItem", "v1.BaseModel", "object"}

\* C7 as claimed: a call that gets to a pydantic.v1 model instance, at any
\* level, raises PydanticV1NotSupportedError and returns nothing.
C7_AsClaimed ==
  /\ (Called /\ NoFilter /\ ReachesLegacy(arg)) => result.st = "raise"
  /\ (Called /\ LegacyFirst(arg)) => result = LegacyError

\* C7 amended: a call that gets to a pydantic.v1 model instance, at any
\* level, that no custom_encoder entry matches raises
\* PydanticV1NotSupportedError and returns nothing (an instance that a
\* custom_encoder entry matches is given to that converter instead).
C7_Legacy ==
  /\ (Called /\ NoCustomForLegacy /\ NoFilter /\ ReachesLegacy(arg)) =>
       result.st = "raise"
  /\ (Called /\ NoCustomForLegacy /\ LegacyFirst(arg)) => result = LegacyError

C7_Witness ==
  /\ Called /\ NoCustomForLegacy /\ NoFilter
  /\ arg.k = "dict" /\ Len(arg.v) = 2 /\ arg.v[2][2].k = "generator"
  /\ ~ReachesLegacy(arg.v[1][2]) /\ ReachesLegacy(arg.v[2][2])
  /\ result = LegacyError
\* ---- C8
\* C8: an enum member that no custom_encoder entry matches is encoded as
\* its value: not its name, not the member itself when it is also a str or
\* an int, and the value as it is, not encoded again.
C8_EnumValue ==
  (Called /\ arg.k = "enum" /\ NoCustomMatch) => result = Ok(arg.v.value)

C8_Witness ==
  /\ Called /\ arg.k = "enum" /\ NoCustomMatch /\ custom_encoder # <<>>
  /\ arg.v.mix = "str" /\ result = Ok(PyStr("t")) /\ result.val # arg

\* ---- C9
HoldsGenerator(x) == \E p \in Parts(x) : p.k = "generator"

ArgumentsAndTablesKept ==
  /\ include' = include /\ exclude' = exclude
  /\ custom_encoder' = custom_encoder
  /\ ENCODERS_BY_TYPE' = ENCODERS_BY_TYPE
  /\ encoders_by_class_tuples' = encoders_by_class_tuples

ClaimedDictChildOptions ==
  [include |-> NoIncEx, exclude |-> NoIncEx, by_alias |-> flags.by_alias,
   exclude_unset |-> flags.exclude_unset, exclude_defaults |-> FALSE,
   exclude_none |-> flags.exclude_none, custom_encoder |-> custom_encoder,
   sqlalchemy_safe |-> flags.sqlalchemy_safe]

UnderDict(x) == jsonable_encoder(x, ClaimedDictChildOptions).val

\* entry i of the dict arg is the last surviving one with its output key
LastWithItsKey(i) ==
  \A j \in (i + 1)..Len(arg.v) :
    Survives(arg.v[j][1], arg.v[j][2]) =>
      ~PyEq(UnderDict(arg.v[j][1]), UnderDict(arg.v[i][1]))

ItemsEncoded == [i \in 1..Len(arg.v) |-> EncodedWithOptions(arg.v[i])]

\* C10: the keys and values of a dict that pass its filters are encoded
\* with by_alias, exclude_unset, exclude_none, custom_encoder and
\* sqlalchemy_safe of the call but without its include, exclude and
\* exclude_defaults; the items of a list, set, frozenset, tuple, deque or
\* generator are encoded in order with all the options of the call.  So a
\* dict inside a list is filtered by include, a dict inside a dict is not.
C10_Propagation ==
  /\ (Returned /\ arg.k = "dict") =>
       \A i \in 1..Len(arg.v) :
         (Survives(arg.v[i][1], arg.v[i][2]) /\ LastWithItsKey(i)) =>
           \E j \in 1..Len(result.val.v) :
             /\ PyEq(result.val.v[j][1], UnderDict(arg.v[i][1]))
             /\ result.val.v[j][2] = UnderDict(arg.v[i][2])
  /\ (Called /\ arg.k \in SeqKinds) =>
       IF \A i \in 1..Len(arg.v) : ItemsEncoded[i].st = "ok"
       THEN result = Ok(List([i \in 1..Len(arg.v) |-> ItemsEncoded[i].val]))
       ELSE result.st = "raise"
  /\ (Called /\ include = IncEx("set", {A}) /\ exclude = NoIncEx
        /\ custom_encoder = <<>> /\ ~flags.exclude_none) =>
       /\ arg = List(<<D1>>) => result = Ok(List(<<Dict(<<<<A, PyInt(1)>>>>)>>))
       /\ arg = Dict(<<<<A, D1>>>>) => result = Ok(arg)

C10_Witness ==
  /\ Called /\ arg = List(<<D2>>)
  /\ include = IncEx("set", {A}) /\ exclude = NoIncEx
  /\ custom_encoder = <<>> /\ ~flags.exclude_none
  /\ result = Ok(List(<<Dict(<<<<A, D1>>>>)>>))
\* ---- C11
\* what the claim has the re-encoding of a dumped model receive
ClaimedModelChildOptions ==
  [include |-> NoIncEx, exclude |-> NoIncEx, by_alias |-> flags.by_alias,
   exclude_unset |-> flags.exclude_unset,
   exclude_defaults |-> flags.exclude_defaults,
   exclude_none |-> flags.exclude_none, custom_encoder |-> custom_encoder,
   sqlalchemy_safe |-> flags.sqlalchemy_safe]

\* obj.model_dump(mode="json", ...) with the filters of the call
Dumped(x) ==
  model_dump(x, [Options EXCEPT !.include = NormalizeIncEx(include),
                                !.exclude = NormalizeIncEx(exclude)])

\* C11: a BaseModel that no custom encoder takes is dumped with include,
\* exclude, by_alias, exclude_unset, exclude_defaults and exclude_none, and
\* the result of the call is the dump encoded with by_alias, exclude_unset,
\* exclude_defaults, exclude_none, custom_encoder and sqlalchemy_safe of the
\* call (every option but include and exclude).
C11_AsClaimed ==
  (Called /\ IsInstance(arg, "BaseModel") /\ CustomMatch(arg, custom_encoder) = 0) =>
    result = LET r == jsonable_encoder(Dumped(arg), ClaimedModelChildOptions)
             IN [st |-> r.st, val |-> r.val]
\* ---- C12
\* the items of a list | None field, None read as no items
ItemsOf(ref) == IF ref = 0 THEN <<>> ELSE lists[ref]

RECURSIVE OwnNotPresent(_, _, _)
\* the items of own from the i-th on that are neither in parent nor earlier in own
OwnNotPresent(parent, own, i) ==
  IF i > Len(own) THEN <<>>
  ELSE (IF own[i] \in Elems(parent) \cup Elems(SubSeq(own, 1, i - 1))
        THEN <<>> ELSE <<own[i]>>) \o OwnNotPresent(parent, own, i + 1)

\* what the fields of Dependant d, as they are now, make its oauth_scopes
MergedScopes(d) ==
  ItemsOf(dependants[d].parent_oauth_scopes)
    \o OwnNotPresent(ItemsOf(dependants[d].parent_oauth_scopes),
                     ItemsOf(dependants[d].own_oauth_scopes), 1)

HasOauthScopes(d) == Len(cached[d].oauth_scopes) > 0
OauthScopesList(d) == cached[d].oauth_scopes[1]

\* C12: the step that computes oauth_scopes of a Dependant makes it all of
\* parent_oauth_scopes in their order followed by each element of
\* own_oauth_scopes, in order, that is not present yet, and changes no field
\* and no list object that existed before; once computed the property keeps
\* the same list with the same items through every later step, whatever is
\* changed in own_oauth_scopes or parent_oauth_scopes, and every read
\* returns it.
C12_OauthScopes ==
  [][\A d \in Deps :
       /\ (~HasOauthScopes(d) /\ HasOauthScopes(d)') =>
            /\ lists'[OauthScopesList(d)'] = MergedScopes(d)
            /\ dependants' = dependants
            /\ \A r \in 1..Len(lists) : lists'[r] = lists[r]
       /\ HasOauthScopes(d) =>
            /\ HasOauthScopes(d)'
            /\ OauthScopesList(d)' = OauthScopesList(d)
            /\ lists'[OauthScopesList(d)] = lists[OauthScopesList(d)]
       /\ (reads' = reads + 1 /\ ret'.op = "oauth_scopes" /\ ret'.dep = d) =>
            /\ HasOauthScopes(d)'
            /\ ret'.scopes = lists'[OauthScopesList(d)']
            /\ HasOauthScopes(d) => ret'.scopes = lists[OauthScopesList(d)]]_vars

C12_Witness ==
  /\ ret.op = "oauth_scopes" /\ ret.hit /\ changes >= 1
  /\ ret.scopes = <<"b", "a">>
  /\ MergedScopes(ret.dep) = <<"b", "a", "c">>
\* ---- C13
HasKey(d) == Len(cached[d].cache_key) > 0
KeyOf(d) == cached[d].cache_key[1]
HasUsesScopes(d) == Len(cached[d]._uses_scopes) > 0
UsesScopes(d) == cached[d]._uses_scopes[1]

\* t lists the members of S, each once, in ascending order
IsSortedTupleOf(t, S) ==
  /\ Elems(t) = S
  /\ \A i, j \in 1..Len(t) : i < j => Rank(t[i]) < Rank(t[j])

\* Dependant d itself has non-empty own_oauth_scopes, a
\* security_scopes_param_name or a security-scheme call
UsesScopesItself(d) ==
  \/ Len(ItemsOf(dependants[d].own_oauth_scopes)) > 0
  \/ dependants[d].security_scopes_param_name # NoneStr
  \/ _is_security_scheme(dependants[d])

RECURSIVE Reachable(_)
\* the Dependants reachable from d through dependencies
Reachable(d) ==
  UNION {{e} \cup Reachable(e) : e \in Elems(dependants[d].dependencies)}

SubtreeUsesScopes(d) == \E e \in {d} \cup Reachable(d) : UsesScopesItself(e)

\* the value of the property oauth_scopes of d: the cached one, or else the
\* one a read would compute now
OauthScopesOf(d) ==
  IF HasOauthScopes(d) THEN lists[OauthScopesList(d)] ELSE MergedScopes(d)

SameCallAndScope(d, e) ==
  /\ dependants[d].call = dependants[e].call
  /\ computed_scope(dependants[d]) = computed_scope(dependants[e])

\* key is (call, scopes, computed_scope or "") of d with the given scopes
KeyWith(key, d, uses, scopes) ==
  /\ key[1] = dependants[d].call
  /\ IF uses THEN IsSortedTupleOf(key[2], Elems(scopes)) ELSE key[2] = <<>>
  /\ key[3] = (IF computed_scope(dependants[d]) = NoneStr THEN ""
               ELSE computed_scope(dependants[d])[1])

\* C13 as claimed: cache_key, when computed, is (call, scopes, computed_scope
\* or "") with scopes the sorted, de-duplicated oauth_scopes if the Dependant
\* or one reachable through dependencies has non-empty own_oauth_scopes, a
\* security_scopes_param_name or a security-scheme call, and () otherwise;
\* two Dependants with the same call and computed scope whose oauth scopes
\* are the same set in different orders have equal cache keys; so have two
\* whose whole subtrees use no scopes, whatever their parent_oauth_scopes.
C13_AsClaimed ==
  /\ [][\A d \in Deps :
          (~HasKey(d) /\ HasKey(d)') =>
            KeyWith(KeyOf(d)', d, SubtreeUsesScopes(d), OauthScopesOf(d))]_vars
  /\ [](\A d, e \in Deps :
          (HasKey(d) /\ HasKey(e) /\ SameCallAndScope(d, e)) =>
            /\ (/\ Elems(OauthScopesOf(d)) = Elems(OauthScopesOf(e))
                /\ OauthScopesOf(d) # OauthScopesOf(e)) => KeyOf(d) = KeyOf(e)
            /\ (~SubtreeUsesScopes(d) /\ ~SubtreeUsesScopes(e)) =>
                 KeyOf(d) = KeyOf(e))

\* every _uses_scopes already cached below d agrees with the fields
SubDependenciesUpToDate(d) ==
  \A e \in Reachable(d) : HasUsesScopes(e) => UsesScopes(e) = SubtreeUsesScopes(e)

\* C13 amended: cache_key is (call, scopes, computed_scope or "") with
\* scopes the sorted, de-duplicated oauth_scopes if _uses_scopes is true and
\* () otherwise.  _uses_scopes is fixed by its first read: it is then true
\* exactly if the Dependant or one reachable through dependencies has
\* non-empty own_oauth_scopes, a security_scopes_param_name or a
\* security-scheme call, provided no _uses_scopes cached earlier in the
\* subtree is out of date.  So two Dependants with the same call and
\* computed scope that both use scopes and whose oauth_scopes are the same
\* set, in whatever orders, have equal cache keys, and two that both use no
\* scopes have equal cache keys whatever their parent_oauth_scopes.
C13_CacheKey ==
  /\ [](\A d \in Deps :
          HasKey(d) =>
            /\ HasUsesScopes(d)
            /\ UsesScopes(d) => HasOauthScopes(d)
            /\ KeyWith(KeyOf(d), d, UsesScopes(d),
                       IF UsesScopes(d) THEN lists[OauthScopesList(d)] ELSE <<>>))
  /\ [][\A d \in Deps :
          (~HasUsesScopes(d) /\ HasUsesScopes(d)' /\ SubDependenciesUpToDate(d)) =>
            UsesScopes(d)' = SubtreeUsesScopes(d)]_vars
  /\ [](\A d, e \in Deps :
          (/\ HasKey(d) /\ HasKey(e) /\ SameCallAndScope(d, e)
           /\ UsesScopes(d) = UsesScopes(e)
           /\ UsesScopes(d) =>
                Elems(lists[OauthScopesList(d)]) = Elems(lists[OauthScopesList(e)]))
            => KeyOf(d) = KeyOf(e))

C13_Witness ==
  /\ Len(dependants) = 2 /\ HasKey(1) /\ HasKey(2)
  /\ UsesScopes(1) /\ UsesScopes(2)
  /\ lists[OauthScopesList(1)] = <<"b", "a">>
  /\ lists[OauthScopesList(2)] = <<"a", "b">>
  /\ dependants[1].parent_oauth_scopes = 0
  /\ dependants[2].own_oauth_scopes = 0
  /\ KeyOf(1) = KeyOf(2)
  /\ KeyOf(1) = <<endpoint, <<"a", "b">>, "">>
====
